---------------------------- MODULE Spec2Model ----------------------------
(***************************************************************************)
(* A model of the two scripts of yt_downloader:                            *)
(*   youtube_downloader.py      (single video: list_formats,               *)
(*                               download_video, the formatting helpers)   *)
(*   yt_playlist_downloader.py  (playlist: get_playlist_info,              *)
(*                               download_playlist)                        *)
(* The yt_dlp library, the clipboard and the filesystem are collaborators: *)
(* their outcomes are inputs chosen by the environment.                    *)
(***************************************************************************)
EXTENDS Integers, Sequences, FiniteSets, TLC

VARIABLES
    pc,         \* position of the running script or operation
    arg,        \* the input of the operation under way
    ret,        \* the value the operation returned
    formats,    \* info['formats'] as returned by the metadata query
    log,        \* the lines printed so far that matter (tags)
    raised,     \* the exception that left the operation, or "none"
    attempted,  \* what the download collaborator was asked to fetch, in order
    exit_status,   \* the status the process ended with, or -1 while running
    exc,           \* the exception raised inside the operation's try block, if any
    quality_label, \* download_video's quality_label
    entries,       \* info['entries'] of the playlist, as last queried
    failed         \* the playlist entries whose download failed

vars == <<pc, arg, ret, formats, log, raised, attempted, exit_status,
          exc, quality_label, entries, failed>>

\* the state no operation has touched
Untouched ==
    /\ ret = <<>>
    /\ formats = <<>>
    /\ log = <<>>
    /\ raised = "none"
    /\ attempted = <<>>
    /\ exit_status = -1
    /\ exc = "none"
    /\ quality_label = <<"", 0>>
    /\ entries = <<>>
    /\ failed = {}

(***************************************************************************)
(* Python values.  A dict key is absent, or holds None, or holds a number. *)
(***************************************************************************)
Absent == <<"absent", 0>>
None == <<"none", 0>>
Num(n) == <<"int", n>>
IsInt(v) == v[1] = "int"

\* dict.get(k): None when the key is absent
Get(f, k) == IF f[k] = Absent THEN None ELSE f[k]
\* dict.get(k, d): d only when the key is absent; a stored None is returned
GetD(f, k, d) == IF f[k] = Absent THEN d ELSE f[k]
\* truth value of None / a number
Truthy(v) == IsInt(v) /\ v[2] # 0
\* x or 0
OrZero(v) == IF Truthy(v) THEN v ELSE Num(0)

(***************************************************************************)
(* format_size.  A byte count is held as its base-1024 digits, least       *)
(* significant first, so that counts in the terabyte range need no        *)
(* integer wider than 32 bits; dividing by 1024.0 shifts the digits.       *)
(***************************************************************************)
Kibi == 1024
Units == <<"B", "KB", "MB", "GB">>

RECURSIVE ToDigits(_)
ToDigits(n) == IF n < Kibi THEN <<n>> ELSE <<n % Kibi>> \o ToDigits(n \div Kibi)

\* digits i.. of d as a number (the integer part after i-1 divisions)
RECURSIVE High(_, _)
High(d, i) == IF i > Len(d) THEN 0 ELSE d[i] + Kibi * High(d, i + 1)

AllZero(d, lo, hi) == \A i \in lo..hi : i \in DOMAIN d => d[i] = 0

\* the comparison written size_bytes <= 1024.0
AtMost1024(d, j) ==
    /\ AllZero(d, j + 3, Len(d))
    /\ \/ j + 2 > Len(d)
       \/ d[j + 2] = 0
       \/ (d[j + 2] = 1 /\ AllZero(d, 1, j + 1))

\* size_bytes < 1024.0 after j divisions by 1024.0
Below1024(d, j) == AllZero(d, j + 2, Len(d))

\* ten times the fraction held by digits 1..j: <<floor, remainder digits>>
RECURSIVE Times10(_, _, _, _)
Times10(d, i, j, carry) ==
    IF i > j THEN <<carry, <<>>>>
    ELSE LET t == 10 * d[i] + carry
             rest == Times10(d, i + 1, j, t \div Kibi)
         IN <<rest[1], <<t % Kibi>> \o rest[2]>>

\* f"{x:.1f}": x = d / 1024^j rounded to one decimal, ties to even,
\* as <<integer part, tenth>>
OneDecimal(d, j) ==
    LET whole == High(d, j + 1)
        m == IF j = 0 THEN <<0, <<>>>> ELSE Times10(d, 1, j, 0)
        q == m[1]
        r == m[2]
        half == Kibi \div 2
        above == j > 0 /\ (r[j] > half \/ (r[j] = half /\ ~AllZero(r, 1, j - 1)))
        tie == j > 0 /\ r[j] = half /\ AllZero(r, 1, j - 1)
        up == above \/ (tie /\ q % 2 = 1)
        q2 == IF up THEN q + 1 ELSE q
    IN IF q2 = 10 THEN <<whole + 1, 0>> ELSE <<whole, q2>>

RECURSIVE FormatLoop(_, _)
FormatLoop(d, j) ==
    IF j >= Len(Units) THEN <<OneDecimal(d, j), "TB">>
    ELSE IF Below1024(d, j) THEN <<OneDecimal(d, j), Units[j + 1]>>
    ELSE FormatLoop(d, j + 1)

\* format_size(size_bytes), size_bytes None or the digits of a byte count
format_size(size_bytes) ==
    IF size_bytes = <<>> THEN <<<<0, 0>>, "Unknown">>
    ELSE FormatLoop(size_bytes, 0)

\* format_size of a Python value (None or a number)
format_size_of(v) == IF IsInt(v) THEN format_size(ToDigits(v[2])) ELSE format_size(<<>>)

(***************************************************************************)
(* estimate_size                                                           *)
(***************************************************************************)
estimate_size(format_info, duration) ==
    IF Truthy(Get(format_info, "filesize")) THEN format_info["filesize"]
    ELSE IF Truthy(Get(format_info, "filesize_approx")) THEN format_info["filesize_approx"]
    ELSE IF Truthy(Get(format_info, "tbr")) /\ Truthy(duration)
         THEN Num((format_info["tbr"][2] * 1000 * duration[2]) \div 8)
    ELSE None

(***************************************************************************)
(* get_quality_label.  A label is <<name, n>>; "<height>p" is <<"p", h>>. *)
(***************************************************************************)
Label(s) == <<s, 0>>

\* the buckets with exclusive upper bounds
get_quality_label_exclusive(height) ==
    IF height = None THEN Label("Unknown")
    ELSE IF height[2] < 480 THEN Label("SD")
    ELSE IF height[2] < 720 THEN Label("HD")
    ELSE IF height[2] < 1080 THEN Label("FHD")
    ELSE IF height[2] < 1440 THEN Label("QHD")
    ELSE IF height[2] < 2160 THEN Label("4K")
    ELSE IF height[2] < 4320 THEN Label("8K")
    ELSE <<"p", height[2]>>

get_quality_label(height) ==
    IF height = None THEN Label("Unknown")
    ELSE IF height[2] <= 480 THEN Label("SD")
    ELSE IF height[2] <= 720 THEN Label("HD")
    ELSE IF height[2] <= 1080 THEN Label("FHD")
    ELSE IF height[2] <= 1440 THEN Label("QHD")
    ELSE IF height[2] <= 2160 THEN Label("4K")
    ELSE IF height[2] <= 4320 THEN Label("8K")
    ELSE <<"p", height[2]>>


(***************************************************************************)
(* Format descriptors: the keys the scripts read.  ext is always present.  *)
(***************************************************************************)
Desc(height, ext, vcodec, tbr, filesize, filesize_approx) ==
    [height |-> height, ext |-> ext, vcodec |-> vcodec, tbr |-> tbr,
     filesize |-> filesize, filesize_approx |-> filesize_approx]

(***************************************************************************)
(* URLs.  A URL is held by its parts: scheme, subdomain, host, path, the   *)
(* text after a path that ends in "/", and the query parameters in order.  *)
(* A parameter value is a word ("abc"), empty, a percent-encoded newline   *)
(* ("%0A") or a newline ("NL").                                            *)
(***************************************************************************)
Url(scheme, sub, host, path, pid, params) ==
    [scheme |-> scheme, sub |-> sub, host |-> host, path |-> path,
     pid |-> pid, params |-> params]

EmptyUrl == Url("", "", "", "", "", <<>>)

VideoUrl == Url("https://", "www.", "youtube.com", "/watch", "", <<<<"v", "abc">>>>)
ShortUrl == Url("", "", "youtu.be", "/", "abc", <<>>)
MobileUrl == Url("http://", "m.", "youtube.com", "/watch", "", <<<<"v", "abc">>>>)
EmbedUrl == Url("https://", "www.", "youtube.com", "/embed/", "abc", <<>>)
PlaylistUrl == Url("https://", "www.", "youtube.com", "/playlist", "", <<<<"list", "PL1">>>>)
WatchListUrl ==
    Url("https://", "www.", "youtube.com", "/watch", "", <<<<"v", "abc">>, <<"list", "PL1">>>>)
EncodedUrl ==
    Url("https://", "m.", "youtube.com", "/watch", "", <<<<"a", "%0A">>, <<"list", "PL1">>>>)
OtherSiteUrl == Url("https://", "www.", "example.com", "/watch", "", <<<<"v", "abc">>>>)
MusicUrl == Url("https://", "music.", "youtube.com", "/watch", "", <<<<"v", "abc">>>>)
NoIdUrl == Url("https://", "www.", "youtube.com", "/watch", "", <<<<"v", "">>>>)

UrlSamples ==
    {EmptyUrl, VideoUrl, ShortUrl, MobileUrl, EmbedUrl, PlaylistUrl, WatchListUrl,
     EncodedUrl, OtherSiteUrl, MusicUrl, NoIdUrl}

\* [\w-]+ matches at the start of the text
Word(v) == v \in {"abc", "PL1"}
\* (?:https?://)?
SchemeOk(u) == u.scheme \in {"", "http://", "https://"}

\* urllib.parse.unquote(url).replace('\\', ''): "%0A" decodes to a newline
Unquote(u) ==
    [u EXCEPT !.params = [i \in DOMAIN u.params |->
        IF u.params[i][2] = "%0A" THEN <<u.params[i][1], "NL">> ELSE u.params[i]]]

is_youtube_url(u) ==
    LET watch_v == /\ u.host = "youtube.com" /\ u.path = "/watch"
                   /\ Len(u.params) >= 1
                   /\ u.params[1][1] = "v" /\ Word(u.params[1][2])
    IN SchemeOk(u) /\
       \/ (u.sub \in {"", "www."} /\ watch_v)
       \/ (u.sub \in {"", "www."} /\ u.host = "youtu.be" /\ u.path = "/" /\ Word(u.pid))
       \/ (u.sub \in {"", "www."} /\ u.host = "youtube.com" /\ u.path = "/embed/" /\ Word(u.pid))
       \/ (u.sub \in {"", "www."} /\ u.host = "youtube.com" /\ u.path = "/v/" /\ Word(u.pid))
       \/ (u.sub \in {"", "m."} /\ watch_v)

is_youtube_playlist_url(u) ==
    LET playlist == /\ u.host = "youtube.com" /\ u.path = "/playlist"
                    /\ Len(u.params) >= 1
                    /\ u.params[1][1] = "list" /\ Word(u.params[1][2])
        \* watch\?.*list=[\w-]+ : "." does not match a newline
        watch_list == /\ u.host = "youtube.com" /\ u.path = "/watch"
                      /\ \E i \in DOMAIN u.params :
                            /\ u.params[i][1] = "list" /\ Word(u.params[i][2])
                            /\ \A k \in 1..(i - 1) : u.params[k][2] # "NL"
    IN SchemeOk(u) /\ u.sub \in {"", "www.", "m."} /\ (playlist \/ watch_list)

(***************************************************************************)
(* The helpers called on their own, on inputs drawn from bounded sets.     *)
(***************************************************************************)
MaxDigits == 6
MaxHeight == 5000
DigitSamples == {0, 1, 256, 512, 1023}

\* a double holds the byte count exactly: its nonzero digits span at most
\* five base-1024 digits (50 bits)
Exact(d) == AllZero(d, 1, Len(d) - 5)

ByteCounts ==
    {d \in UNION {[1..n -> DigitSamples] : n \in 1..MaxDigits} :
        (Len(d) > 1 => d[Len(d)] # 0) /\ Exact(d)}

OptSamples == {Absent, None, Num(0), Num(500)}

SizeInputs ==
    {Desc(None, "mp4", "avc1", t, fs, fa) :
        t \in OptSamples, fs \in OptSamples, fa \in OptSamples}

NoArg == [op |-> "none", url |-> EmptyUrl, format_id |-> 0, size |-> <<>>, f |-> Desc(None, "mp4", "avc1", None, None, None),
          duration |-> None, height |-> None]

PureArgs ==
    {[NoArg EXCEPT !.op = "format_size", !.size = d] : d \in ByteCounts \cup {<<>>}}
    \cup {[NoArg EXCEPT !.op = "estimate_size", !.f = f, !.duration = du] :
            f \in SizeInputs, du \in {None, Num(0), Num(60)}}
    \cup {[NoArg EXCEPT !.op = "get_quality_label", !.height = h] :
            h \in {None} \cup {Num(n) : n \in 0..MaxHeight}}

InitPure ==
    /\ pc = "call"
    /\ arg \in PureArgs
    /\ Untouched

CallFormatSize ==
    /\ pc = "call" /\ arg.op = "format_size"
    /\ ret' = format_size(arg.size)
    /\ pc' = "returned"
    /\ UNCHANGED <<arg, formats, log, raised, attempted, exit_status, exc, quality_label, entries, failed>>

CallEstimateSize ==
    /\ pc = "call" /\ arg.op = "estimate_size"
    /\ ret' = estimate_size(arg.f, arg.duration)
    /\ pc' = "returned"
    /\ UNCHANGED <<arg, formats, log, raised, attempted, exit_status, exc, quality_label, entries, failed>>

CallGetQualityLabel ==
    /\ pc = "call" /\ arg.op = "get_quality_label"
    /\ ret' = get_quality_label(arg.height)
    /\ pc' = "returned"
    /\ UNCHANGED <<arg, formats, log, raised, attempted, exit_status, exc, quality_label, entries, failed>>

NextPure == CallFormatSize \/ CallEstimateSize \/ CallGetQualityLabel

SpecPure == InitPure /\ [][NextPure]_vars


Returned(op) == pc = "returned" /\ arg.op = op

(***************************************************************************)
(* C7: whenever filesize is present (a number, 0 or more) estimate_size    *)
(* returns exactly that filesize, whatever filesize_approx, tbr and        *)
(* duration are.                                                           *)
(***************************************************************************)
C7_FilesizeReturnedWhenPresent ==
    (Returned("estimate_size") /\ IsInt(arg.f.filesize)) => ret = arg.f.filesize

(***************************************************************************)
(* C8: get_quality_label is total: None gives Unknown, and every integer   *)
(* height gives exactly the label of its bucket, upper bounds inclusive:   *)
(* 480 SD, 720 HD, 1080 FHD, 1440 QHD, 2160 4K, 4320 8K, above "<h>p".     *)
(***************************************************************************)
C8_QualityLabelTable ==
    Returned("get_quality_label") =>
        IF arg.height = None THEN ret = Label("Unknown")
        ELSE LET h == arg.height[2] IN
            /\ (ret = Label("SD") <=> h <= 480)
            /\ (ret = Label("HD") <=> (480 < h /\ h <= 720))
            /\ (ret = Label("FHD") <=> (720 < h /\ h <= 1080))
            /\ (ret = Label("QHD") <=> (1080 < h /\ h <= 1440))
            /\ (ret = Label("4K") <=> (1440 < h /\ h <= 2160))
            /\ (ret = Label("8K") <=> (2160 < h /\ h <= 4320))
            /\ (ret = <<"p", h>> <=> h > 4320)
            /\ ret # Label("Unknown")

C8_Witness ==
    /\ Returned("get_quality_label")
    /\ arg.height = Num(5000)
    /\ ret = <<"p", 5000>>

(***************************************************************************)
(* C9 as stated: for every byte count format_size stops at the first unit  *)
(* in which the value is below 1024, so the value in the unit printed is   *)
(* always below 1024.                                                      *)
(***************************************************************************)
UnitIndex(u) == CASE u = "B" -> 0 [] u = "KB" -> 1 [] u = "MB" -> 2
                  [] u = "GB" -> 3 [] u = "TB" -> 4

\* the value of byte count d in unit i is below 1024
ValueBelow1024(d, i) == \A k \in (i + 2)..Len(d) : d[k] = 0

C9_ValueAlwaysBelow1024 ==
    (Returned("format_size") /\ arg.size # <<>>) =>
        ValueBelow1024(arg.size, UnitIndex(ret[2]))

(***************************************************************************)
(* C9 amended: format_size prints in the first of B, KB, MB, GB in which   *)
(* the value is below 1024 and in TB when there is none; the value in the  *)
(* unit printed is below 1024 exactly for byte counts below 1024^5 (from   *)
(* there on TB values of 1024 and more are printed); the text is that      *)
(* value rounded to one decimal, so it is the integer part or one more     *)
(* (1048575 prints 1024.0KB); 1536 prints 1.5KB; None prints Unknown.      *)
(***************************************************************************)
C9_FirstUnitBelow1024OrTB ==
    Returned("format_size") =>
        IF arg.size = <<>> THEN ret = <<<<0, 0>>, "Unknown">>
        ELSE LET d == arg.size
                 j == UnitIndex(ret[2])
                 whole == IF j + 1 > Len(d) THEN 0
                          ELSE d[j + 1] + (IF j = 4 THEN Kibi * High(d, 6) ELSE 0)
             IN /\ ret[2] \in {"B", "KB", "MB", "GB", "TB"}
                /\ \A i \in 0..(j - 1) : ~ValueBelow1024(d, i)
                /\ j < 4 => ValueBelow1024(d, j)
                /\ ValueBelow1024(d, j) <=> Len(d) <= 5 \/ \A k \in 6..Len(d) : d[k] = 0
                /\ ret[1][1] \in {whole, whole + 1}
                /\ ret[1][2] \in 0..9
                /\ d = <<512, 1>> => ret = <<<<1, 5>>, "KB">>
                /\ d = <<1023, 1023>> => ret = <<<<1024, 0>>, "KB">>

C9_Witness ==
    /\ Returned("format_size")
    /\ arg.size = <<0, 0, 0, 0, 0, 1>>
    /\ ret = <<<<1024, 0>>, "TB">>


(***************************************************************************)
(* list_formats                                                            *)
(***************************************************************************)
MaxFormats == 3

ListSamples ==
    {Desc(Absent, "mp4", "avc1", Absent, None, Absent),
     Desc(None, "mp4", "avc1", Absent, None, Absent),
     Desc(None, "mhtml", "none", Absent, None, Absent),
     Desc(Num(720), "mhtml", "none", Absent, None, Absent)}
    \cup {Desc(Num(h), "mp4", "avc1", p[1], p[2], Absent) :
            h \in {720, 1080},
            p \in {<<Absent, None>>, <<None, None>>, <<Num(500), None>>,
                   <<Num(500), Num(1000)>>}}

ListUrlSamples == {VideoUrl, ShortUrl, OtherSiteUrl, NoIdUrl}

SeqsUpTo(S, n) == UNION {[1..k -> S] : k \in 0..n}

\* [f for f in formats if f.get('height') is not None and f.get('ext') != 'mhtml']
KeepNoHeightFilter(f) == f.ext # "mhtml"
Keep(f) == Get(f, "height") # None /\ f.ext # "mhtml"

RECURSIVE Filter(_)
Filter(fs) ==
    IF fs = <<>> THEN <<>>
    ELSE (IF Keep(Head(fs)) THEN <<Head(fs)>> ELSE <<>>) \o Filter(Tail(fs))

\* key=lambda x: (x.get('height', 0), x.get('tbr', 0), x.get('filesize', 0))
SortKey(x) == <<GetD(x, "height", Num(0)), GetD(x, "tbr", Num(0)), GetD(x, "filesize", Num(0))>>

\* a < b on tuples of equal length: "lt", "ge", or "TypeError" when the
\* first differing pair holds a None
RECURSIVE TupleLt(_, _, _)
TupleLt(a, b, i) ==
    IF i > Len(a) THEN "ge"
    ELSE IF a[i] = b[i] THEN TupleLt(a, b, i + 1)
    ELSE IF a[i] = None \/ b[i] = None THEN "TypeError"
    ELSE IF a[i][2] < b[i][2] THEN "lt" ELSE "ge"

\* x put into the descending list s behind every element not below it;
\* ok is FALSE when a comparison made on the way raises TypeError
RECURSIVE InsertDesc(_, _, _)
InsertDesc(s, x, n) ==
    IF n = 0 THEN [ok |-> TRUE, list |-> <<x>> \o s]
    ELSE LET c == TupleLt(SortKey(s[n]), SortKey(x), 1) IN
         IF c = "TypeError" THEN [ok |-> FALSE, list |-> <<>>]
         ELSE IF c = "lt" THEN InsertDesc(s, x, n - 1)
         ELSE [ok |-> TRUE, list |-> SubSeq(s, 1, n) \o <<x>> \o SubSeq(s, n + 1, Len(s))]

\* list.sort(key=..., reverse=True): stable, descending.  The comparisons
\* are those of an insertion sort; on two elements every sort makes the
\* one comparison there is.
RECURSIVE SortDesc(_, _)
SortDesc(done, todo) ==
    IF ~done.ok \/ todo = <<>> THEN done
    ELSE SortDesc(InsertDesc(done.list, Head(todo), Len(done.list)), Tail(todo))

\* the table printed: index, height, size text, extension
Rows(vf, duration) ==
    [i \in DOMAIN vf |->
        <<i, vf[i].height[2], format_size_of(estimate_size(vf[i], duration)), vf[i].ext>>]

InitList ==
    /\ pc = "call"
    /\ arg \in {[NoArg EXCEPT !.op = "list_formats", !.url = u] : u \in ListUrlSamples}
    /\ Untouched

\* lines 68-70: the URL is not a video URL
ListFormatsInvalidUrl ==
    /\ pc = "call" /\ arg.op = "list_formats"
    /\ ~is_youtube_url(Unquote(arg.url))
    /\ log' = <<"Error: The provided URL is not a valid YouTube URL!">>
    /\ ret' = <<>>
    /\ pc' = "returned"
    /\ UNCHANGED <<arg, formats, raised, attempted, exit_status, exc, quality_label, entries, failed>>

\* line 78: extract_info raises; nothing in list_formats catches it
ListFormatsQueryRaises ==
    /\ pc = "call" /\ arg.op = "list_formats"
    /\ is_youtube_url(Unquote(arg.url))
    /\ raised' = "DownloadError"
    /\ pc' = "raised"
    /\ UNCHANGED <<arg, ret, formats, log, attempted, exit_status, exc, quality_label, entries, failed>>

\* lines 78-98 with the query answered
ListFormatsQueried ==
    /\ pc = "call" /\ arg.op = "list_formats"
    /\ is_youtube_url(Unquote(arg.url))
    /\ \E fs \in SeqsUpTo(ListSamples, MaxFormats), duration \in {None, Num(60)} :
        LET sorted == SortDesc([ok |-> TRUE, list |-> <<>>], Filter(fs))
            video_formats == sorted.list
        IN
        /\ formats' = fs
        /\ IF ~sorted.ok
           THEN /\ raised' = "TypeError"
                /\ pc' = "raised"
                /\ UNCHANGED <<ret, log>>
           ELSE /\ log' = Rows(video_formats, duration)
                /\ ret' = video_formats
                /\ pc' = "returned"
                /\ UNCHANGED raised
    /\ UNCHANGED <<arg, attempted, exit_status, exc, quality_label, entries, failed>>

NextList == ListFormatsInvalidUrl \/ ListFormatsQueryRaises \/ ListFormatsQueried

SpecList == InitList /\ [][NextList]_vars


Count(q, x) == Cardinality({i \in DOMAIN q : q[i] = x})

\* list_formats came back from a query that was answered
ListReturned == pc = "returned" /\ arg.op = "list_formats" /\ is_youtube_url(arg.url)

(***************************************************************************)
(* C2: in every operation a failure raised by a collaborator or by the     *)
(* selection logic is caught inside the operation; no exception            *)
(* propagates to the caller.                                               *)
(***************************************************************************)
C2_NoExceptionPropagates == raised = "none" /\ pc # "raised"

(***************************************************************************)
(* C5: list_formats returns the filtered descriptors in descending order   *)
(* of (height, tbr, filesize), a missing value counting as 0, and the sort *)
(* never fails on a missing value.                                         *)
(***************************************************************************)
ZeroKey(x) == <<OrZero(Get(x, "height"))[2], OrZero(Get(x, "tbr"))[2],
                OrZero(Get(x, "filesize"))[2]>>

LexGe(a, b) ==
    \/ a[1] > b[1]
    \/ (a[1] = b[1] /\ a[2] > b[2])
    \/ (a[1] = b[1] /\ a[2] = b[2] /\ a[3] >= b[3])

C5_RankedMissingAsZeroNeverFails ==
    /\ raised # "TypeError"
    /\ ListReturned =>
        \A i, j \in DOMAIN ret : i < j => LexGe(ZeroKey(ret[i]), ZeroKey(ret[j]))

(***************************************************************************)
(* C6: the list list_formats returns holds exactly the input descriptors   *)
(* with a non-null height and an ext other than "mhtml": none without      *)
(* height, none with ext "mhtml", no qualifying one dropped or duplicated. *)
(***************************************************************************)
Qualifies(x) == x.height # Absent /\ x.height # None /\ x.ext # "mhtml"

C6_ReturnedExactlyQualifying ==
    ListReturned =>
        /\ \A i \in DOMAIN ret : Qualifies(ret[i])
        /\ \A x \in ListSamples :
            Count(ret, x) = IF Qualifies(x) THEN Count(formats, x) ELSE 0

C6_Witness ==
    /\ ListReturned
    /\ Len(formats) = 3 /\ Len(ret) = 1
    /\ \E i \in DOMAIN formats : formats[i].ext = "mhtml" /\ formats[i].height = Num(720)
    /\ \E i \in DOMAIN formats : formats[i].height \in {Absent, None} /\ formats[i].ext = "mp4"


(***************************************************************************)
(* youtube_downloader.py: download_video and the script's entry point.     *)
(* A format_id is the position of the format in info['formats']; 0 stands  *)
(* for None.  vcodec "" stands for a descriptor without the key.           *)
(***************************************************************************)
VideoSamples ==
    {Desc(None, "m4a", "none", Num(128), None, Absent),
     Desc(Absent, "m4a", "none", None, None, Absent),
     Desc(Num(720), "mhtml", "none", Absent, None, Absent),
     Desc(Num(720), "mhtml", "", None, None, Absent),
     Desc(Num(720), "mp4", "avc1", Num(500), None, Absent),
     Desc(Num(720), "mp4", "avc1", None, None, Absent),
     Desc(Num(1080), "mp4", "avc1", Num(500), None, Absent),
     Desc(Num(1080), "mp4", "", Absent, None, Absent),
     Desc(Num(5000), "webm", "vp9", Num(900), None, Absent)}

NoFormat == Desc(None, "", "", None, None, None)

\* f.get('height') is not None and f.get('vcodec') != 'none'
IsVideoFormat(f) == Get(f, "height") # None /\ f.vcodec # "none"

\* line 150: key=lambda x: (x.get('height', 0), x.get('tbr', 0))
KeyDefault(x) == <<GetD(x, "height", Num(0)), GetD(x, "tbr", Num(0))>>
\* line 152: key=lambda x: (x.get('height', 0) or 0, x.get('tbr', 0) or 0)
KeyOrZero(x) == <<OrZero(GetD(x, "height", Num(0))), OrZero(GetD(x, "tbr", Num(0)))>>

\* max(): the first element no later one exceeds; k is 1 for KeyDefault,
\* 2 for KeyOrZero
KeyOf(k, x) == IF k = 1 THEN KeyDefault(x) ELSE KeyOrZero(x)

RECURSIVE MaxLoop(_, _, _, _)
MaxLoop(q, k, best, i) ==
    IF i > Len(q) THEN [err |-> "none", has |-> TRUE, fmt |-> best]
    ELSE LET c == TupleLt(KeyOf(k, best), KeyOf(k, q[i]), 1) IN
         IF c = "TypeError" THEN [err |-> "TypeError", has |-> FALSE, fmt |-> NoFormat]
         ELSE MaxLoop(q, k, IF c = "lt" THEN q[i] ELSE best, i + 1)

\* max(q, default=None)
MaxOrNone(q, k) ==
    IF q = <<>> THEN [err |-> "none", has |-> FALSE, fmt |-> NoFormat]
    ELSE MaxLoop(q, k, q[1], 2)

\* max(q): ValueError on an empty sequence
Max(q, k) ==
    IF q = <<>> THEN [err |-> "ValueError", has |-> FALSE, fmt |-> NoFormat]
    ELSE MaxLoop(q, k, q[1], 2)

\* selected_format with max(formats, ..., default=None) as the fallback
SelectFormatDefaultNone(fs, format_id) ==
    IF format_id # 0
    THEN IF format_id \in DOMAIN fs
         THEN [err |-> "none", has |-> TRUE, fmt |-> fs[format_id]]
         ELSE [err |-> "none", has |-> FALSE, fmt |-> NoFormat]
    ELSE LET video_formats == SelectSeq(fs, IsVideoFormat) IN
         IF video_formats # <<>> THEN Max(video_formats, 1) ELSE MaxOrNone(fs, 2)

\* lines 143-152: selected_format
SelectFormat(fs, format_id) ==
    IF format_id # 0
    THEN IF format_id \in DOMAIN fs
         THEN [err |-> "none", has |-> TRUE, fmt |-> fs[format_id]]
         ELSE [err |-> "none", has |-> FALSE, fmt |-> NoFormat]
    ELSE LET video_formats == SelectSeq(fs, IsVideoFormat) IN
         IF video_formats # <<>> THEN Max(video_formats, 1) ELSE Max(fs, 2)

VideoArgs ==
    {[NoArg EXCEPT !.op = "video_main", !.url = u] : u \in UrlSamples}
    \cup {[NoArg EXCEPT !.op = "download_video", !.url = u, !.format_id = id] :
            u \in {VideoUrl, PlaylistUrl}, id \in 0..(MaxFormats + 1)}

InitVideo ==
    /\ arg \in VideoArgs
    /\ pc = IF arg.op = "video_main" THEN "main" ELSE "dv_validate"
    /\ Untouched

\* lines 181-201 up to the call of download_video
VideoMain ==
    /\ pc = "main" /\ arg.op = "video_main"
    /\ IF arg.url = EmptyUrl
       THEN /\ log' = <<"No URL found in clipboard!">>
            /\ exit_status' = 1
            /\ pc' = "exited"
       ELSE IF ~is_youtube_url(arg.url)
       THEN /\ log' = <<"The provided URL is not a valid YouTube URL!">>
            /\ exit_status' = 1
            /\ pc' = "exited"
       ELSE /\ log' = <<"Found URL in clipboard", "Downloading best quality video with audio...">>
            /\ pc' = "dv_validate"
            /\ UNCHANGED exit_status
    /\ UNCHANGED <<arg, ret, formats, raised, attempted, exc, quality_label, entries, failed>>

\* lines 122-127
DV_Validate ==
    /\ pc = "dv_validate"
    /\ IF ~is_youtube_url(Unquote(arg.url))
       THEN /\ log' = Append(log, "Error: The provided URL is not a valid YouTube URL!")
            /\ pc' = "dv_return"
       ELSE /\ pc' = "dv_makedirs"
            /\ UNCHANGED log
    /\ UNCHANGED <<arg, ret, formats, raised, attempted, exit_status, exc, quality_label, entries, failed>>

\* line 130: os.makedirs succeeds or raises
DV_Makedirs ==
    /\ pc = "dv_makedirs"
    /\ \E ok \in BOOLEAN :
        IF ok THEN pc' = "dv_query" /\ UNCHANGED exc
        ELSE pc' = "dv_except" /\ exc' = "OSError"
    /\ UNCHANGED <<arg, ret, formats, log, raised, attempted, exit_status, quality_label, entries, failed>>

\* lines 138-140: the metadata query answers or raises
DV_Query ==
    /\ pc = "dv_query"
    /\ log' = Append(log, "Fetching video information...")
    /\ \/ /\ exc' = "DownloadError"
          /\ pc' = "dv_except"
          /\ UNCHANGED formats
       \/ /\ \E fs \in SeqsUpTo(VideoSamples, MaxFormats) : formats' = fs
          /\ pc' = "dv_select"
          /\ UNCHANGED exc
    /\ UNCHANGED <<arg, ret, raised, attempted, exit_status, quality_label, entries, failed>>

\* lines 143-159
DV_Select ==
    /\ pc = "dv_select"
    /\ LET selected_format == SelectFormat(formats, arg.format_id) IN
       IF selected_format.err # "none"
       THEN /\ exc' = selected_format.err
            /\ pc' = "dv_except"
            /\ UNCHANGED <<quality_label, log>>
       ELSE /\ quality_label' = get_quality_label(
                    IF selected_format.has THEN Get(selected_format.fmt, "height") ELSE None)
            /\ log' = Append(log, "Quality")
            /\ pc' = "dv_download"
            /\ UNCHANGED exc
    /\ UNCHANGED <<arg, ret, formats, raised, attempted, exit_status, entries, failed>>

\* lines 161-176: the download collaborator is invoked and succeeds or raises
DV_Download ==
    /\ pc = "dv_download"
    /\ attempted' = Append(attempted,
            [format |-> IF arg.format_id # 0 THEN "format_id"
                        ELSE "bestvideo[ext=mp4]+bestaudio[ext=m4a]/bestvideo+bestaudio/best",
             label |-> quality_label])
    /\ \E ok \in BOOLEAN :
        IF ok
        THEN /\ log' = log \o <<"Starting download...", "Download completed successfully!">>
             /\ pc' = "dv_return"
             /\ UNCHANGED exc
        ELSE /\ log' = Append(log, "Starting download...")
             /\ exc' = "DownloadError"
             /\ pc' = "dv_except"
    /\ UNCHANGED <<arg, ret, formats, raised, exit_status, quality_label, entries, failed>>

\* lines 178-179
DV_Except ==
    /\ pc = "dv_except"
    /\ log' = Append(log, "An error occurred")
    /\ pc' = "dv_return"
    /\ UNCHANGED <<arg, ret, formats, raised, attempted, exit_status, exc, quality_label, entries, failed>>

\* download_video returns; the script then ends, which is exit status 0
DV_Return ==
    /\ pc = "dv_return"
    /\ IF arg.op = "video_main"
       THEN exit_status' = 0 /\ pc' = "exited"
       ELSE pc' = "returned" /\ UNCHANGED exit_status
    /\ UNCHANGED <<arg, ret, formats, log, raised, attempted, exc, quality_label, entries, failed>>

NextVideo ==
    \/ VideoMain \/ DV_Validate \/ DV_Makedirs \/ DV_Query \/ DV_Select
    \/ DV_Download \/ DV_Except \/ DV_Return

SpecVideo == InitVideo /\ [][NextVideo]_vars


Range(q) == {q[i] : i \in DOMAIN q}

(***************************************************************************)
(* C3 (single-video script): the process exits with status 1 when the      *)
(* clipboard is empty or the URL is invalid, and a run that reached the    *)
(* download exits with status 0 exactly when the download succeeded: a run *)
(* in which the download failed does not end in the success outcome.       *)
(***************************************************************************)
C3_ExitZeroExactlyOnSuccess ==
    (pc = "exited" /\ arg.op = "video_main") =>
        /\ (arg.url = EmptyUrl \/ ~is_youtube_url(arg.url)) => exit_status = 1
        /\ attempted # <<>> =>
            (exit_status = 0 <=> "Download completed successfully!" \in Range(log))

(***************************************************************************)
(* C4 as stated: whenever the filtered list (non-null height, ext other    *)
(* than "mhtml") of the queried formats is empty, the run aborts and the   *)
(* download collaborator is never invoked.                                 *)
(***************************************************************************)
C4_NoDownloadWhenFilteredListEmpty ==
    Filter(formats) = <<>> => attempted = <<>>

(***************************************************************************)
(* C4 amended: with no format_id supplied, the run aborts without invoking *)
(* the download collaborator when the format list is empty; when the list  *)
(* is not empty and no descriptor has a height (so that the filtered list  *)
(* is empty) the run does not abort: download_video invokes the download   *)
(* collaborator.                                                           *)
(***************************************************************************)
NoHeights(fs) == \A i \in DOMAIN fs : fs[i].height \in {Absent, None}

C4_AbortsOnEmptyListOnly ==
    arg.format_id = 0 =>
        /\ formats = <<>> => attempted = <<>>
        /\ (pc \in {"dv_return", "returned", "exited"} /\ formats # <<>> /\ NoHeights(formats))
            => (Len(attempted) = 1 /\ attempted[1].label = Label("Unknown"))

C4_Witness ==
    /\ pc = "exited" /\ arg.op = "video_main"
    /\ formats = <<>> /\ exc = "ValueError"
    /\ attempted = <<>>
    /\ "An error occurred" \in Range(log)

(***************************************************************************)
(* C10: with no format_id and a non-empty format list the inference        *)
(* completes without error, and the quality label is get_quality_label of  *)
(* the height of a maximum by (height, tbr), missing values counting as 0, *)
(* among the descriptors with a height and a vcodec other than "none" if   *)
(* there are any, among all descriptors otherwise.                         *)
(***************************************************************************)
Key2(x) == <<OrZero(Get(x, "height"))[2], OrZero(Get(x, "tbr"))[2]>>
Ge2(a, b) == a[1] > b[1] \/ (a[1] = b[1] /\ a[2] >= b[2])

Candidates(fs) ==
    LET v == {i \in DOMAIN fs : fs[i].height \notin {Absent, None} /\ fs[i].vcodec # "none"}
    IN IF v # {} THEN v ELSE DOMAIN fs

C10_InferenceCompletesWithMaximum ==
    (arg.format_id = 0 /\ formats # <<>>) =>
        /\ exc \notin {"TypeError", "ValueError"}
        /\ pc = "dv_download" =>
            \E i \in Candidates(formats) :
                /\ \A j \in Candidates(formats) : Ge2(Key2(formats[i]), Key2(formats[j]))
                /\ quality_label = get_quality_label(Get(formats[i], "height"))


(***************************************************************************)
(* yt_playlist_downloader.py: get_playlist_info, download_playlist and the *)
(* script's entry point.  An entry of info['entries'] is "video", or       *)
(* "none" for an entry the extractor could not resolve.                    *)
(***************************************************************************)
MaxEntries == 3

\* line 55: 'ignoreerrors': True
ignoreerrors_off == FALSE
ignoreerrors == TRUE

EntryLists == SeqsUpTo({"video", "none"}, MaxEntries)

\* len([entry for entry in info['entries'] if entry is not None])
video_count(es) == Cardinality({i \in DOMAIN es : es[i] # "none"})

InitPlaylist ==
    /\ arg \in {[NoArg EXCEPT !.op = "playlist_main", !.url = u] : u \in UrlSamples}
    /\ pc = "main"
    /\ Untouched

\* lines 135-150
PlaylistMain ==
    /\ pc = "main" /\ arg.op = "playlist_main"
    /\ IF arg.url = EmptyUrl
       THEN /\ log' = <<"No URL found in clipboard!">>
            /\ exit_status' = 1
            /\ pc' = "exited"
       ELSE IF ~is_youtube_playlist_url(arg.url)
       THEN /\ log' = <<"Found URL in clipboard",
                        "The provided URL is not a valid YouTube playlist URL!">>
            /\ exit_status' = 1
            /\ pc' = "exited"
       ELSE /\ log' = <<"Found URL in clipboard", "URL validation passed">>
            /\ pc' = "get_playlist_info"
            /\ UNCHANGED exit_status
    /\ UNCHANGED <<arg, ret, formats, raised, attempted, exc, quality_label, entries, failed>>

\* lines 87-131: ret is <<>> for None, else <<video_count>>
GetPlaylistInfo ==
    /\ pc = "get_playlist_info"
    /\ pc' = "main_info"
    /\ IF ~is_youtube_playlist_url(Unquote(arg.url))
       THEN /\ log' = Append(log, "Error: The provided URL is not a valid YouTube playlist URL!")
            /\ ret' = <<>>
            /\ UNCHANGED <<exc, entries>>
       ELSE \/ /\ exc' = "DownloadError"
               /\ log' = log \o <<"Extracting playlist information...",
                                  "Error getting playlist info">>
               /\ ret' = <<>>
               /\ UNCHANGED entries
            \/ /\ log' = log \o <<"Extracting playlist information...",
                                  "Error: Could not extract information from URL">>
               /\ ret' = <<>>
               /\ UNCHANGED <<exc, entries>>
            \/ /\ log' = log \o <<"Extracting playlist information...",
                                  "Error: No playlist entries found">>
               /\ ret' = <<>>
               /\ UNCHANGED <<exc, entries>>
            \/ /\ \E es \in EntryLists :
                    /\ entries' = es
                    /\ ret' = <<video_count(es)>>
               /\ log' = Append(log, "Extracting playlist information...")
               /\ UNCHANGED exc
    /\ UNCHANGED <<arg, formats, raised, attempted, exit_status, quality_label, failed>>

\* lines 153-176: the answer typed at the prompt, stripped and lowered
PlaylistConfirm ==
    /\ pc = "main_info"
    /\ IF ret = <<>>
       THEN /\ log' = Append(log, "Could not retrieve playlist information!")
            /\ exit_status' = 1
            /\ pc' = "exited"
       ELSE \E confirm \in {"y", "yes", "n", ""} :
            IF confirm \notin {"y", "yes"}
            THEN /\ log' = log \o <<"Playlist Information:", "Download cancelled.">>
                 /\ exit_status' = 0
                 /\ pc' = "exited"
            ELSE /\ log' = log \o <<"Playlist Information:",
                                    "Starting playlist download in highest quality...">>
                 /\ pc' = "dp_validate"
                 /\ UNCHANGED exit_status
    /\ UNCHANGED <<arg, ret, formats, raised, attempted, exc, quality_label, entries, failed>>

\* lines 36-41
DP_Validate ==
    /\ pc = "dp_validate"
    /\ IF ~is_youtube_playlist_url(Unquote(arg.url))
       THEN /\ log' = Append(log, "Error: The provided URL is not a valid YouTube playlist URL!")
            /\ pc' = "dp_return"
       ELSE /\ pc' = "dp_makedirs"
            /\ UNCHANGED log
    /\ UNCHANGED <<arg, ret, formats, raised, attempted, exit_status, exc, quality_label, entries, failed>>

\* line 44
DP_Makedirs ==
    /\ pc = "dp_makedirs"
    /\ \E ok \in BOOLEAN :
        IF ok THEN pc' = "dp_query" /\ UNCHANGED exc
        ELSE pc' = "dp_except" /\ exc' = "OSError"
    /\ UNCHANGED <<arg, ret, formats, log, raised, attempted, exit_status, quality_label, entries, failed>>

\* lines 61-75: the query raises, answers None ('entries' not in None is a
\* TypeError), answers without entries, or answers with the entries
DP_Query ==
    /\ pc = "dp_query"
    /\ \/ /\ \E e \in {"DownloadError", "TypeError"} : exc' = e
          /\ log' = Append(log, "Fetching playlist information...")
          /\ pc' = "dp_except"
          /\ UNCHANGED entries
       \/ /\ log' = log \o <<"Fetching playlist information...",
                             "Error: No videos found in the playlist!">>
          /\ pc' = "dp_return"
          /\ UNCHANGED <<exc, entries>>
       \/ /\ \E es \in EntryLists : entries' = es
          /\ log' = log \o <<"Fetching playlist information...", "Total videos">>
          /\ pc' = "dp_download"
          /\ UNCHANGED exc
    /\ UNCHANGED <<arg, ret, formats, raised, attempted, exit_status, quality_label, failed>>

\* line 78, one entry of ydl.download([url]): the next entry in playlist
\* order is fetched; an unresolved entry cannot be; a failure is skipped
\* under ignoreerrors and raised otherwise
DP_DownloadEntry ==
    /\ pc = "dp_download"
    /\ Len(attempted) < Len(entries)
    /\ LET k == Len(attempted) + 1 IN
       /\ attempted' = Append(attempted, k)
       /\ \E ok \in BOOLEAN :
            /\ entries[k] = "none" => ~ok
            /\ IF ok
               THEN UNCHANGED <<failed, exc, pc>>
               ELSE /\ failed' = failed \cup {k}
                    /\ IF ignoreerrors
                       THEN UNCHANGED <<exc, pc>>
                       ELSE exc' = "DownloadError" /\ pc' = "dp_except"
    /\ UNCHANGED <<arg, ret, formats, log, raised, exit_status, quality_label, entries>>

\* lines 80-82: ydl.download returned
DP_Completed ==
    /\ pc = "dp_download"
    /\ Len(attempted) = Len(entries)
    /\ log' = Append(log, "Playlist download completed successfully!")
    /\ pc' = "dp_return"
    /\ UNCHANGED <<arg, ret, formats, raised, attempted, exit_status, exc, quality_label, entries, failed>>

\* lines 84-85
DP_Except ==
    /\ pc = "dp_except"
    /\ log' = Append(log, "An error occurred")
    /\ pc' = "dp_return"
    /\ UNCHANGED <<arg, ret, formats, raised, attempted, exit_status, exc, quality_label, entries, failed>>

\* download_playlist returns; the script then ends, which is exit status 0
DP_Return ==
    /\ pc = "dp_return"
    /\ exit_status' = 0
    /\ pc' = "exited"
    /\ UNCHANGED <<arg, ret, formats, log, raised, attempted, exc, quality_label, entries, failed>>

NextPlaylist ==
    \/ PlaylistMain \/ GetPlaylistInfo \/ PlaylistConfirm \/ DP_Validate \/ DP_Makedirs
    \/ DP_Query \/ DP_DownloadEntry \/ DP_Completed \/ DP_Except \/ DP_Return

SpecPlaylist == InitPlaylist /\ [][NextPlaylist]_vars

(***************************************************************************)
(* C1: when one entry of the playlist fails during the download (metadata  *)
(* query and confirmation having succeeded), every entry is still          *)
(* attempted once, in playlist order, the failing one is skipped without   *)
(* retry, the run reaches "completed" and the process exits with status 0. *)
(***************************************************************************)
InOrder(q, n) == Len(q) = n /\ \A i \in 1..n : q[i] = i

C1_OneFailureStillCompletes ==
    Cardinality(failed) = 1 =>
        /\ \A i \in DOMAIN attempted : attempted[i] = i
        /\ exc = "none"
        /\ pc \in {"dp_download", "dp_return", "exited"}
        /\ pc = "dp_download" => ENABLED (DP_DownloadEntry \/ DP_Completed)
        /\ pc \in {"dp_return", "exited"} =>
            /\ InOrder(attempted, Len(entries))
            /\ "Playlist download completed successfully!" \in Range(log)
            /\ "An error occurred" \notin Range(log)
        /\ pc = "dp_return" => ENABLED DP_Return
        /\ pc = "exited" => exit_status = 0

C1_Witness ==
    /\ pc = "exited" /\ exit_status = 0
    /\ failed = {2}
    /\ entries = <<"video", "video", "video">>
    /\ attempted = <<1, 2, 3>>
    /\ "Playlist download completed successfully!" \in Range(log)

=============================================================================
